---- MODULE Spec2Model ----
(***************************************************************************)
(* The wallet connection hook useWallet (hooks/useWallet, kept in          *)
(* src/unnamed/part_000) as a state machine.                               *)
(*                                                                         *)
(* JavaScript runs the hook's callbacks on one event loop: every piece of  *)
(* code between two awaits is one atomic step.  An awaited call to the     *)
(* wallet extension or to the balance service is a pending request; the    *)
(* step that follows it is taken when the request returns or throws, with  *)
(* the response chosen by the environment.  A functional update            *)
(* setWalletState(prev => ...) is applied to the state current at that     *)
(* moment.  The component is taken to re-render after every commit, so the *)
(* walletState a callback closes over is the state current when the        *)
(* callback is invoked.                                                    *)
(***************************************************************************)
EXTENDS Integers, FiniteSets, Sequences, TLC

VARIABLES walletState, mounted, init, ops, started, last

\* disc remembers the last disconnect(): which operations were in flight when
\* it ran (0 is initializeWallet, s > 0 the call in slot s) and whether an
\* operation started after it has committed since
VARIABLES disc

vars == <<walletState, mounted, init, ops, started, last, disc>>

(***************************************************************************)
(* The blockchain verification client (services/blockchain.ts): service is *)
(* the one call to it in flight, from its request to the value it returns  *)
(***************************************************************************)
VARIABLES service

\* one call truncateHash(hash) or truncateHash(hash, length): its arguments,
\* then its result
VARIABLES truncation

(***************************************************************************)
(* The property route table (routes/property.route.ts): router is the one  *)
(* request being dispatched, the route it matched and the handlers it has  *)
(* reached                                                                 *)
(***************************************************************************)
VARIABLES router

\* what the wallet hook leaves alone
aside == <<service, truncation, router>>

(***************************************************************************)
(* Bounds                                                                  *)
(***************************************************************************)
\* number of getPublicKey / connect / refreshConnection calls the UI makes
\* (each may overlap the initialization and the calls made before it)
MaxCalls == 1

Slots == 1..MaxCalls

\* the longest hash given to truncateHash, and the largest length
MaxHashLen == 5
MaxLength == 2

\* the most segments in the path of a request
MaxSegments == 2

(***************************************************************************)
(* JavaScript values                                                       *)
(***************************************************************************)
\* null / undefined of a string-typed field
Null == "<null>"

\* JS truthiness of string | null | undefined
Truthy(v) == v \notin {Null, ""}

\* JS  a || b
OrElse(a, b) == IF Truthy(a) THEN a ELSE b

\* a thrown value: an Error with a message, or something that is no Error
NoExc == [isError |-> FALSE, message |-> Null]
Thrown == {[isError |-> TRUE, message |-> "Network error"],
           [isError |-> FALSE, message |-> "rejected"]}

\* new Error(msg)
NewError(msg) == [isError |-> TRUE, message |-> msg]

\* error instanceof Error ? error.message : dflt
MessageOf(e, dflt) == IF e.isError THEN e.message ELSE dflt

(***************************************************************************)
(* Responses of the wallet extension and of the balance service            *)
(***************************************************************************)
Keys == {"GA", "GB"}

\* checkFreighterConnection() -> {isInstalled, isConnected, error?}
ConnectionResults ==
    [isInstalled : {TRUE}, isConnected : BOOLEAN, error : {Null}]
    \cup [isInstalled : {FALSE}, isConnected : BOOLEAN,
          error : {Null, "Freighter not detected"}]

NoConnection == [isInstalled |-> FALSE, isConnected |-> FALSE, error |-> Null]

\* checkFreighterPermission() -> {isAllowed}
PermissionResults == [isAllowed : BOOLEAN]

\* getFreighterAddress() -> {address?}
AddressResults == [address : Keys \cup {Null, ""}]

\* getFreighterNetwork() -> {network?, networkPassphrase?}
NoNetwork == [network |-> Null, networkPassphrase |-> Null]
NetworkResults ==
    {[network |-> "TESTNET", networkPassphrase |-> "Test SDF Network"], NoNetwork}

\* connectFreighter() -> {address?, error?}
ConnectResults ==
    [address : Keys, error : {Null}]
    \cup {[address |-> Null, error |-> "User declined access"],
          [address |-> Null, error |-> Null],
          [address |-> "", error |-> ""]}

\* the ledger's USDC balance of an account
BalanceOf(k) == IF k = "GA" THEN "10.00" ELSE "25.50"

\* getUSDCBalance(address) -> string | null
BalanceResults(k) == {BalanceOf(k), Null}

(***************************************************************************)
(* verifyPropertyWithBlockchain and getPropertyBlockchainStatus            *)
(***************************************************************************)
\* an optional value: undefined, or the value
Undefined == <<>>
Some(v) == <<v>>

Statuses == {"Available", "Booked", "Maintenance", "Inactive"}

\* BlockchainVerificationResult
BlockchainData == [id : {"p1"}, data_hash : {"h1", "h2"}, owner : {"GA"}, status : Statuses]

VerificationResults ==
    [isValid : BOOLEAN, blockchainData : {Undefined} \cup {Some(d) : d \in BlockchainData}]

\* the envelope {success, data, error?} of GET /properties/{id}/verify;
\* success may be missing
Envelopes ==
    [success : {Some(TRUE), Some(FALSE), Undefined},
     data : {Undefined} \cup {Some(v) : v \in VerificationResults},
     error : {Undefined, Some("Property not found"), Some("")}]

\* how apiUtils.request settles: with an envelope, with null / undefined, or by
\* throwing
HttpOutcomes ==
    [kind : {"resolved"}, result : {Undefined} \cup {Some(e) : e \in Envelopes},
     thrown : {NoExc}]
    \cup [kind : {"rejected"}, result : {Undefined}, thrown : Thrown]

\* how a function ends: by returning value or by throwing thrown
Return(value) == [threw |-> FALSE, value |-> value, thrown |-> NoExc]
Throw(thrown) == [threw |-> TRUE, value |-> Undefined, thrown |-> thrown]

\* a try block that takes the data of an envelope whatever its success field
VerifyTryIgnoresSuccess(outcome) ==
    IF outcome.kind = "rejected"
      THEN Throw(outcome.thrown)
      ELSE LET result == outcome.result
           IN IF result # Undefined /\ result[1].data # Undefined
                THEN Return(result[1].data[1])
                ELSE Throw(NewError("Verification failed"))

\* the try block of verifyPropertyWithBlockchain
VerifyTry(outcome) ==
    IF outcome.kind = "rejected"
      THEN Throw(outcome.thrown)
      ELSE LET result == outcome.result
               success == result # Undefined /\ result[1].success = Some(TRUE)
           IN IF success /\ result[1].data # Undefined
                THEN Return(result[1].data[1])
                ELSE Throw(NewError(
                       IF result # Undefined /\ result[1].error \notin {Undefined, Some("")}
                         THEN result[1].error[1]
                         ELSE "Verification failed"))

\* the value of the catch block of verifyPropertyWithBlockchain
VerificationFailed == [isValid |-> FALSE, blockchainData |-> Undefined]

\* verifyPropertyWithBlockchain(propertyId), given how its request settles
verifyPropertyWithBlockchain(outcome) ==
    LET try == VerifyTry(outcome)
    IN IF try.threw THEN Return(VerificationFailed) ELSE try

\* ISO timestamps new Date() may give
Times == {"2025-01-01T00:00:00.000Z", "2025-01-02T00:00:00.000Z"}

\* getPropertyBlockchainStatus(propertyId), given the verification and the time
getPropertyBlockchainStatus(verification, now) ==
    IF verification.threw
      THEN Return([isVerified |-> FALSE,
                   blockchainHash |-> Undefined,
                   lastVerified |-> Undefined,
                   error |-> Some(MessageOf(verification.thrown, "Unknown error"))])
      ELSE LET verificationResult == verification.value
           IN Return([isVerified |-> verificationResult.isValid,
                      blockchainHash |->
                         IF verificationResult.blockchainData = Undefined
                           THEN Undefined
                           ELSE Some(verificationResult.blockchainData[1].data_hash),
                      lastVerified |-> Some(now),
                      error |-> IF verificationResult.isValid
                                  THEN Undefined
                                  ELSE Some("Data integrity check failed")])

\* no call to the client
ServiceIdle ==
    [pc |-> "idle", fn |-> "none",
     outcome |-> [kind |-> "resolved", result |-> Undefined, thrown |-> NoExc],
     verification |-> Return(VerificationFailed),
     returned |-> Return(VerificationFailed)]

(***************************************************************************)
(* truncateHash; a string is the sequence of its characters                *)
(***************************************************************************)
Chars == {"a", "b"}

Hashes == UNION {[1..n -> Chars] : n \in 0..MaxHashLen}

Ellipsis == <<".", ".", ".">>

\* the default of the parameter length
DefaultLength == 8

\* String.prototype.slice(start, end): a negative index counts from the end,
\* both are clamped to the string
SliceIndex(str, i) ==
    IF i < 0 THEN (IF Len(str) + i < 0 THEN 0 ELSE Len(str) + i)
    ELSE IF i > Len(str) THEN Len(str) ELSE i

Slice(str, start, end) ==
    LET from == SliceIndex(str, start)
        to == SliceIndex(str, end)
    IN IF from >= to THEN <<>> ELSE SubSeq(str, from + 1, to)

\* hash.slice(-length): the end defaults to the length of the string, and
\* -0 is 0
SliceFrom(str, start) == Slice(str, start, Len(str))

truncateHash(hash, length) ==
    IF Len(hash) <= length * 2
      THEN hash
      ELSE Slice(hash, 0, length) \o Ellipsis \o SliceFrom(hash, -length)

\* the calls of truncateHash: every hash, with a length or without
Truncations ==
    [pc : {"called"}, hash : Hashes, args : {1}, length : {DefaultLength},
     result : {<<>>}]
    \cup [pc : {"called"}, hash : Hashes, args : {2}, length : 0..MaxLength,
           result : {<<>>}]

NoTruncation ==
    [pc |-> "idle", hash |-> <<>>, args |-> 1, length |-> DefaultLength, result |-> <<>>]

(***************************************************************************)
(* The route table; a path is the sequence of its segments                 *)
(***************************************************************************)
Route(method, path, handlers) ==
    [method |-> method, path |-> path, handlers |-> handlers]

\* DELETE /:id with the validation ahead of the authentication
DeleteRouteValidatesFirst ==
    Route("DELETE", <<":id">>,
          <<"validatePropertyId", "authenticateToken", "deletePropertyController">>)

DeleteRoute ==
    Route("DELETE", <<":id">>,
          <<"authenticateToken", "validatePropertyId", "deletePropertyController">>)

\* the routes in the order they are registered
Routes ==
    << Route("GET", <<"amenities">>, <<"getAllowedAmenitiesController">>),
       Route("GET", <<"featured">>, <<"getFeaturedPropertiesController">>),
       Route("GET", <<>>, <<"searchPropertiesController">>),
       Route("GET", <<":id">>, <<"validatePropertyId", "getPropertyByIdController">>),
       Route("POST", <<>>,
             <<"authenticateToken", "upload.array", "processImageUploads",
               "createPropertyController">>),
       Route("PUT", <<":id">>,
             <<"authenticateToken", "validatePropertyId", "upload.array",
               "processImageUploads", "updatePropertyController">>),
       DeleteRoute,
       Route("GET", <<"owner", ":ownerId">>,
             <<"authenticateToken", "validateOwnerId", "getPropertiesByOwnerController">>),
       Route("PATCH", <<":id", "availability">>,
             <<"authenticateToken", "validatePropertyId",
               "updatePropertyAvailabilityController">>),
       Route("PATCH", <<":id", "status">>,
             <<"authenticateToken", "validatePropertyId",
               "updatePropertyStatusController">>),
       Route("GET", <<":id", "verify">>,
             <<"validatePropertyId", "verifyPropertyController">>) >>

\* the handlers that pass the request on with next(): authentication,
\* validation, upload parsing
Middleware ==
    {"authenticateToken", "validatePropertyId", "validateOwnerId", "upload.array",
     "processImageUploads"}

\* the requests: a method and a path of known segments
Methods == {"GET", "POST", "PUT", "DELETE", "PATCH"}

Segments == {"amenities", "featured", "owner", "availability", "status", "verify", "p1"}

Paths == UNION {[1..n -> Segments] : n \in 0..MaxSegments}

\* a route parameter matches any segment, another segment matches itself
IsParam(segment) == segment \in {":id", ":ownerId"}

Matches(route, method, path) ==
    /\ route.method = method
    /\ Len(route.path) = Len(path)
    /\ \A i \in 1..Len(path) : IsParam(route.path[i]) \/ route.path[i] = path[i]

Matching(method, path) == {i \in 1..Len(Routes) : Matches(Routes[i], method, path)}

\* the route a request is dispatched to: the first registered that matches,
\* 0 when none does
FirstMatch(method, path) ==
    IF Matching(method, path) = {} THEN 0
    ELSE CHOOSE i \in Matching(method, path) : \A j \in Matching(method, path) : i <= j

NoRequest ==
    [pc |-> "idle", method |-> "GET", path |-> <<>>, route |-> 0, next |-> 1,
     reached |-> <<>>, endedBy |-> Null]

(***************************************************************************)
(* WalletState and the states the hook commits                             *)
(***************************************************************************)
InitialWalletState ==
    [isConnected |-> FALSE, publicKey |-> Null, network |-> Null,
     networkPassphrase |-> Null, isInstalled |-> FALSE, isAllowed |-> FALSE,
     isLoading |-> TRUE, error |-> Null, usdcBalance |-> Null]

\* mutant: the not-installed commit forgets isLoading
NotInstalledStateKeepsLoading(prev, connectionStatus) ==
    [prev EXCEPT !.isInstalled = FALSE,
                 !.error = OrElse(connectionStatus.error, "Freighter not installed")]

\* initializeWallet, extension not installed
NotInstalledState(prev, connectionStatus) ==
    [prev EXCEPT !.isInstalled = FALSE,
                 !.isLoading = FALSE,
                 !.error = OrElse(connectionStatus.error, "Freighter not installed")]

\* initializeWallet, connected branch: the whole state is replaced
ConnectedState(addressResult, networkResult, usdcBalance) ==
    [isConnected |-> TRUE,
     publicKey |-> OrElse(addressResult.address, Null),
     network |-> OrElse(networkResult.network, Null),
     networkPassphrase |-> OrElse(networkResult.networkPassphrase, Null),
     isInstalled |-> TRUE, isAllowed |-> TRUE, isLoading |-> FALSE,
     error |-> Null, usdcBalance |-> usdcBalance]

\* initializeWallet, not-connected branch
NotConnectedState(prev, isAllowed) ==
    [prev EXCEPT !.isConnected = FALSE,
                 !.isInstalled = TRUE,
                 !.isAllowed = isAllowed,
                 !.isLoading = FALSE,
                 !.error = Null,
                 !.usdcBalance = Null]

\* mutant: the catch of initializeWallet leaves the balance
InitErrorStateKeepsBalance(prev, error) ==
    [prev EXCEPT !.isInstalled = FALSE,
                 !.isLoading = FALSE,
                 !.error = MessageOf(error, "Unknown error")]

\* initializeWallet, catch
InitErrorState(prev, error) ==
    [prev EXCEPT !.isInstalled = FALSE,
                 !.isLoading = FALSE,
                 !.error = MessageOf(error, "Unknown error"),
                 !.usdcBalance = Null]

\* mutant: the early return tests the network instead of the key
AlreadyConnectedByNetwork(ws) == ws.isConnected /\ Truthy(ws.network)

\* getPublicKey: the guard of the early return
AlreadyConnected(ws) == ws.isConnected /\ Truthy(ws.publicKey)

\* getPublicKey, success
PublicKeyState(prev, address, networkResult, usdcBalance) ==
    [prev EXCEPT !.isConnected = TRUE,
                 !.publicKey = OrElse(address, Null),
                 !.network = OrElse(networkResult.network, Null),
                 !.networkPassphrase = OrElse(networkResult.networkPassphrase, Null),
                 !.isInstalled = TRUE,
                 !.isAllowed = TRUE,
                 !.error = Null,
                 !.usdcBalance = usdcBalance]

\* mutant: the catch of getPublicKey leaves the balance
PublicKeyErrorStateKeepsBalance(prev, error) ==
    [prev EXCEPT !.error = MessageOf(error, "Failed to get public key")]

\* getPublicKey, catch
PublicKeyErrorState(prev, error) ==
    [prev EXCEPT !.error = MessageOf(error, "Failed to get public key"),
                 !.usdcBalance = Null]

\* connect, first statement
ConnectStartState(prev) == [prev EXCEPT !.isLoading = TRUE, !.error = Null]

\* connect, catch
ConnectErrorState(prev, error) ==
    [prev EXCEPT !.isLoading = FALSE,
                 !.error = MessageOf(error, "Failed to connect")]

\* mutant: connect without its finally block
ConnectWithoutFinally(prev) == prev

\* connect, finally
ConnectFinallyState(prev) == [prev EXCEPT !.isLoading = FALSE]

\* mutant: disconnect leaves the balance of the key it clears
DisconnectedStateKeepsBalance(prev) ==
    [prev EXCEPT !.isConnected = FALSE,
                 !.publicKey = Null,
                 !.network = Null,
                 !.networkPassphrase = Null]

\* mutant: disconnect also drops the permission
DisconnectedStateDropsPermission(prev) ==
    [prev EXCEPT !.isConnected = FALSE,
                 !.publicKey = Null,
                 !.network = Null,
                 !.networkPassphrase = Null,
                 !.isAllowed = FALSE,
                 !.usdcBalance = Null]

\* disconnect
DisconnectedState(prev) ==
    [prev EXCEPT !.isConnected = FALSE,
                 !.publicKey = Null,
                 !.network = Null,
                 !.networkPassphrase = Null,
                 !.usdcBalance = Null]

\* refreshConnection, first statement
RefreshStartState(prev) == [prev EXCEPT !.isLoading = TRUE]

\* mutant: refreshConnection takes isAllowed from the connection status
RefreshedStateAllowedByStatus(connectionStatus, addressResult, networkResult, usdcBalance) ==
    [isConnected |-> connectionStatus.isConnected /\ Truthy(addressResult.address),
     publicKey |-> OrElse(addressResult.address, Null),
     network |-> OrElse(networkResult.network, Null),
     networkPassphrase |-> OrElse(networkResult.networkPassphrase, Null),
     isInstalled |-> connectionStatus.isInstalled,
     isAllowed |-> connectionStatus.isConnected,
     isLoading |-> FALSE,
     error |-> Null,
     usdcBalance |-> usdcBalance]

\* refreshConnection, success: the whole state is replaced
RefreshedState(connectionStatus, addressResult, networkResult, usdcBalance) ==
    [isConnected |-> connectionStatus.isConnected /\ Truthy(addressResult.address),
     publicKey |-> OrElse(addressResult.address, Null),
     network |-> OrElse(networkResult.network, Null),
     networkPassphrase |-> OrElse(networkResult.networkPassphrase, Null),
     isInstalled |-> connectionStatus.isInstalled,
     isAllowed |-> Truthy(addressResult.address),
     isLoading |-> FALSE,
     error |-> Null,
     usdcBalance |-> usdcBalance]

\* mutant: the catch of refreshConnection forgets isLoading
RefreshErrorStateKeepsLoading(prev, error) ==
    [prev EXCEPT !.error = MessageOf(error, "Failed to refresh connection"),
                 !.usdcBalance = Null]

\* refreshConnection, catch
RefreshErrorState(prev, error) ==
    [prev EXCEPT !.isLoading = FALSE,
                 !.error = MessageOf(error, "Failed to refresh connection"),
                 !.usdcBalance = Null]

(***************************************************************************)
(* Bookkeeping: the step taken last (who ran, which external functions it  *)
(* called, how many times it called setWalletState, how it settled, the    *)
(* exception it caught or let escape, for the not-installed exit the       *)
(* reason the extension reported, and for a refreshConnection that commits *)
(* its result the three responses it read)                                 *)
(***************************************************************************)
\* what Promise.all handed to refreshConnection
Response(connectionStatus, addressResult, networkResult) ==
    [isInstalled |-> connectionStatus.isInstalled,
     isConnected |-> connectionStatus.isConnected,
     address |-> addressResult.address,
     network |-> networkResult.network,
     networkPassphrase |-> networkResult.networkPassphrase]

NoResponse == Response(NoConnection, [address |-> Null], NoNetwork)

Step(op, step, called, commits, outcome, value, thrown) ==
    [op |-> op, step |-> step, called |-> called, commits |-> commits,
     outcome |-> outcome, value |-> value, thrown |-> thrown, reported |-> Null,
     response |-> NoResponse]

\* a step that leaves its operation pending
Pending(op, step, called, commits) ==
    Step(op, step, called, commits, "pending", Null, NoExc)

\* a step that ends its operation normally, returning value
Returned(op, step, commits, value) ==
    Step(op, step, {}, commits, "returned", value, NoExc)

\* a step that ends its operation normally after catching thrown
Caught(op, step, commits, thrown) ==
    Step(op, step, {}, commits, "returned", Null, thrown)

\* a step that ends its operation with an exception for the caller
Threw(op, step, commits, thrown) ==
    Step(op, step, {}, commits, "threw", Null, thrown)

(***************************************************************************)
(* Bookkeeping: the reach of the last disconnect()                         *)
(***************************************************************************)
\* no disconnect() so far, or one already followed by a later operation
NoDisconnect(on) == [on |-> on, active |-> FALSE, stale |-> {}]

\* the operations in flight: initializeWallet until it is done, and the calls
\* holding a slot
InFlight ==
    {s \in Slots : ops[s].kind # "none"} \cup (IF init.pc # "done" THEN {0} ELSE {})

\* the operation the step belongs to: the call it starts, or the call or the
\* initialization it continues
Stepper ==
    IF last'.op = "initializeWallet" THEN 0
    ELSE IF started' # started THEN started'
    ELSE CHOOSE s \in Slots : ops'[s] # ops[s]

\* how a step of the hook moves disc
Track ==
    disc' = IF ~disc.on THEN disc
            ELSE IF last'.op = "disconnect"
              THEN [disc EXCEPT !.active = TRUE, !.stale = InFlight]
            ELSE IF disc.active /\ last'.commits > 0 /\ Stepper \notin disc.stale
              THEN NoDisconnect(TRUE)
            ELSE disc

(***************************************************************************)
(* initializeWallet (the mount effect)                                     *)
(***************************************************************************)
InitLocals(pc, connectionStatus, addressResult, networkResult) ==
    [pc |-> pc, connectionStatus |-> connectionStatus,
     addressResult |-> addressResult, networkResult |-> networkResult]

InitDone == InitLocals("done", NoConnection, [address |-> Null], NoNetwork)

\* the effect's cleanup: mounted = false
Unmount ==
    /\ mounted
    /\ mounted' = FALSE
    /\ last' = Returned("unmount", "cleanup", 0, Null)
    /\ UNCHANGED <<walletState, init, ops, started, aside>> /\ Track

\* catch of initializeWallet: commit only when still mounted
InitCatch(error, step) ==
    /\ init' = InitDone
    /\ IF mounted
         THEN /\ walletState' = InitErrorState(walletState, error)
              /\ last' = Caught("initializeWallet", step, 1, error)
         ELSE /\ UNCHANGED walletState
              /\ last' = Caught("initializeWallet", step, 0, error)
    /\ UNCHANGED <<mounted, ops, started, aside>> /\ Track

\* await checkFreighterConnection() returns
InitConnectionReturns ==
    /\ init.pc = "checkFreighterConnection"
    /\ \E connectionStatus \in ConnectionResults :
         IF ~mounted
           THEN /\ init' = InitDone
                /\ last' = Returned("initializeWallet", "cancelled", 0, Null)
                /\ UNCHANGED walletState
           ELSE IF ~connectionStatus.isInstalled
             THEN /\ init' = InitDone
                  /\ walletState' = NotInstalledState(walletState, connectionStatus)
                  /\ last' = [Returned("initializeWallet", "notInstalled", 1, Null)
                                 EXCEPT !.reported = connectionStatus.error]
             ELSE /\ init' = InitLocals("checkFreighterPermission", connectionStatus,
                                        [address |-> Null], NoNetwork)
                  /\ last' = Pending("initializeWallet", "installed",
                                     {"checkFreighterPermission"}, 0)
                  /\ UNCHANGED walletState
    /\ UNCHANGED <<mounted, ops, started, aside>> /\ Track

\* await checkFreighterConnection() throws
InitConnectionThrows ==
    /\ init.pc = "checkFreighterConnection"
    /\ \E error \in Thrown : InitCatch(error, "connectionThrew")

\* await checkFreighterPermission() returns
InitPermissionReturns ==
    /\ init.pc = "checkFreighterPermission"
    /\ \E permissionStatus \in PermissionResults :
         LET isAllowed == permissionStatus.isAllowed
             isConnected == init.connectionStatus.isConnected /\ isAllowed
         IN IF ~mounted
              THEN /\ init' = InitDone
                   /\ last' = Returned("initializeWallet", "cancelled", 0, Null)
                   /\ UNCHANGED walletState
              ELSE IF isConnected
                THEN /\ init' = [init EXCEPT !.pc = "getFreighterAddress"]
                     /\ last' = Pending("initializeWallet", "allowed",
                                        {"getFreighterAddress", "getFreighterNetwork"}, 0)
                     /\ UNCHANGED walletState
                ELSE /\ init' = InitDone
                     /\ walletState' = NotConnectedState(walletState, isAllowed)
                     /\ last' = Returned("initializeWallet", "notConnected", 1, Null)
    /\ UNCHANGED <<mounted, ops, started, aside>> /\ Track

\* await checkFreighterPermission() throws
InitPermissionThrows ==
    /\ init.pc = "checkFreighterPermission"
    /\ \E error \in Thrown : InitCatch(error, "permissionThrew")

\* await Promise.all([getFreighterAddress(), getFreighterNetwork()]) returns
InitAddressReturns ==
    /\ init.pc = "getFreighterAddress"
    /\ \E addressResult \in AddressResults, networkResult \in NetworkResults :
         LET publicKey == OrElse(addressResult.address, Null)
         IN IF ~mounted
              THEN /\ init' = InitDone
                   /\ last' = Returned("initializeWallet", "cancelled", 0, Null)
                   /\ UNCHANGED walletState
              ELSE IF Truthy(publicKey)
                THEN /\ init' = [init EXCEPT !.pc = "getUSDCBalance",
                                             !.addressResult = addressResult,
                                             !.networkResult = networkResult]
                     /\ last' = Pending("initializeWallet", "address",
                                        {"getUSDCBalance"}, 0)
                     /\ UNCHANGED walletState
                ELSE /\ init' = InitDone
                     /\ walletState' = ConnectedState(addressResult, networkResult, Null)
                     /\ last' = Returned("initializeWallet", "connected", 1, Null)
    /\ UNCHANGED <<mounted, ops, started, aside>> /\ Track

\* one of the two calls joined by Promise.all throws
InitAddressThrows ==
    /\ init.pc = "getFreighterAddress"
    /\ \E error \in Thrown : InitCatch(error, "addressThrew")

\* await getUSDCBalance(publicKey) returns; the commit is not guarded by mounted
InitBalanceReturns ==
    /\ init.pc = "getUSDCBalance"
    /\ \E usdcBalance \in BalanceResults(init.addressResult.address) :
         /\ init' = InitDone
         /\ walletState' = ConnectedState(init.addressResult, init.networkResult,
                                          usdcBalance)
         /\ last' = Returned("initializeWallet", "connected", 1, Null)
    /\ UNCHANGED <<mounted, ops, started, aside>> /\ Track

\* await getUSDCBalance(publicKey) throws
InitBalanceThrows ==
    /\ init.pc = "getUSDCBalance"
    /\ \E error \in Thrown : InitCatch(error, "balanceThrew")

(***************************************************************************)
(* getPublicKey, alone or as called by connect                             *)
(***************************************************************************)
\* a call slot: the locals of one call in flight
Idle ==
    [kind |-> "none", pc |-> "idle", address |-> Null, networkResult |-> NoNetwork,
     connectionStatus |-> NoConnection, thrown |-> NoExc]

Call(kind, pc) == [Idle EXCEPT !.kind = kind, !.pc = pc]

InPublicKey(s) == ops[s].kind \in {"getPublicKey", "connect"}

\* getPublicKey() called by the UI
GetPublicKeyCall ==
    /\ mounted
    /\ started < MaxCalls
    /\ started' = started + 1
    /\ IF AlreadyConnected(walletState)
         THEN /\ last' = Returned("getPublicKey", "call", 0, walletState.publicKey)
              /\ UNCHANGED ops
         ELSE /\ ops' = [ops EXCEPT ![started + 1] = Call("getPublicKey", "connectFreighter")]
              /\ last' = Pending("getPublicKey", "call", {"connectFreighter"}, 0)
    /\ UNCHANGED <<walletState, mounted, init, aside>> /\ Track

\* catch of getPublicKey: record the error, clear the balance, re-throw
PublicKeyCatch(s, error, step) ==
    /\ walletState' = PublicKeyErrorState(walletState, error)
    /\ ops' = [ops EXCEPT ![s] = IF ops[s].kind = "connect"
                                   THEN [Call("connect", "settled") EXCEPT !.thrown = error]
                                   ELSE Idle]
    /\ last' = Threw("getPublicKey", step, 1, error)
    /\ UNCHANGED <<mounted, init, started, aside>> /\ Track

\* await connectFreighter() returns
ConnectFreighterReturns(s) ==
    /\ InPublicKey(s)
    /\ ops[s].pc = "connectFreighter"
    /\ \E connectResult \in ConnectResults :
         IF Truthy(connectResult.error)
           THEN PublicKeyCatch(s, NewError(connectResult.error), "connectError")
           ELSE IF ~Truthy(connectResult.address)
             THEN PublicKeyCatch(s, NewError("No address returned from Freighter"),
                                 "noAddress")
             ELSE /\ ops' = [ops EXCEPT ![s].pc = "getFreighterNetwork",
                                        ![s].address = connectResult.address]
                  /\ last' = Pending("getPublicKey", "address", {"getFreighterNetwork"}, 0)
                  /\ UNCHANGED <<walletState, mounted, init, started, aside>> /\ Track

\* await connectFreighter() throws
ConnectFreighterThrows(s) ==
    /\ InPublicKey(s)
    /\ ops[s].pc = "connectFreighter"
    /\ \E error \in Thrown : PublicKeyCatch(s, error, "connectThrew")

\* await getFreighterNetwork() returns
PublicKeyNetworkReturns(s) ==
    /\ InPublicKey(s)
    /\ ops[s].pc = "getFreighterNetwork"
    /\ \E networkResult \in NetworkResults :
         /\ ops' = [ops EXCEPT ![s].pc = "getUSDCBalance",
                               ![s].networkResult = networkResult]
         /\ last' = Pending("getPublicKey", "network", {"getUSDCBalance"}, 0)
    /\ UNCHANGED <<walletState, mounted, init, started, aside>> /\ Track

\* await getFreighterNetwork() throws
PublicKeyNetworkThrows(s) ==
    /\ InPublicKey(s)
    /\ ops[s].pc = "getFreighterNetwork"
    /\ \E error \in Thrown : PublicKeyCatch(s, error, "networkThrew")

\* await getUSDCBalance(connectResult.address) returns: commit, return the address
PublicKeyBalanceReturns(s) ==
    /\ InPublicKey(s)
    /\ ops[s].pc = "getUSDCBalance"
    /\ \E usdcBalance \in BalanceResults(ops[s].address) :
         /\ walletState' = PublicKeyState(walletState, ops[s].address,
                                          ops[s].networkResult, usdcBalance)
         /\ ops' = [ops EXCEPT ![s] = IF ops[s].kind = "connect"
                                        THEN Call("connect", "settled")
                                        ELSE Idle]
         /\ last' = Returned("getPublicKey", "connected", 1, ops[s].address)
    /\ UNCHANGED <<mounted, init, started, aside>> /\ Track

\* await getUSDCBalance(connectResult.address) throws
PublicKeyBalanceThrows(s) ==
    /\ InPublicKey(s)
    /\ ops[s].pc = "getUSDCBalance"
    /\ \E error \in Thrown : PublicKeyCatch(s, error, "balanceThrew")

(***************************************************************************)
(* connect                                                                 *)
(***************************************************************************)
\* connect() called by the UI: set isLoading, call getPublicKey up to its
\* first await (or its early return)
ConnectCall ==
    /\ mounted
    /\ started < MaxCalls
    /\ started' = started + 1
    /\ walletState' = ConnectStartState(walletState)
    /\ IF AlreadyConnected(walletState)
         THEN /\ ops' = [ops EXCEPT ![started + 1] = Call("connect", "settled")]
              /\ last' = Pending("connect", "call", {}, 1)
         ELSE /\ ops' = [ops EXCEPT ![started + 1] = Call("connect", "connectFreighter")]
              /\ last' = Pending("connect", "call", {"connectFreighter"}, 1)
    /\ UNCHANGED <<mounted, init, aside>> /\ Track

\* await getPublicKey() has settled: catch (when it threw) and finally
ConnectSettles(s) ==
    /\ ops[s].kind = "connect"
    /\ ops[s].pc = "settled"
    /\ IF ops[s].thrown # NoExc
         THEN /\ walletState' = ConnectFinallyState(
                                    ConnectErrorState(walletState, ops[s].thrown))
              /\ last' = Threw("connect", "catch", 2, ops[s].thrown)
         ELSE /\ walletState' = ConnectFinallyState(walletState)
              /\ last' = Returned("connect", "finally", 1, Null)
    /\ ops' = [ops EXCEPT ![s] = Idle]
    /\ UNCHANGED <<mounted, init, started, aside>> /\ Track

(***************************************************************************)
(* disconnect                                                              *)
(***************************************************************************)
Disconnect ==
    /\ mounted
    /\ walletState' = DisconnectedState(walletState)
    /\ last' = Returned("disconnect", "call", 1, Null)
    /\ UNCHANGED <<mounted, init, ops, started, aside>> /\ Track

(***************************************************************************)
(* refreshConnection                                                       *)
(***************************************************************************)
\* refreshConnection() called by the UI
RefreshCall ==
    /\ mounted
    /\ started < MaxCalls
    /\ started' = started + 1
    /\ walletState' = RefreshStartState(walletState)
    /\ ops' = [ops EXCEPT ![started + 1] = Call("refreshConnection", "Promise.all")]
    /\ last' = Pending("refreshConnection", "call",
                       {"checkFreighterConnection", "getFreighterAddress",
                        "getFreighterNetwork"}, 1)
    /\ UNCHANGED <<mounted, init, aside>> /\ Track

\* catch of refreshConnection: the error is recorded and swallowed
RefreshCatch(s, error, step) ==
    /\ walletState' = RefreshErrorState(walletState, error)
    /\ ops' = [ops EXCEPT ![s] = Idle]
    /\ last' = Caught("refreshConnection", step, 1, error)
    /\ UNCHANGED <<mounted, init, started, aside>> /\ Track

\* await Promise.all([checkFreighterConnection(), getFreighterAddress(),
\* getFreighterNetwork()]) returns
RefreshAllReturns(s) ==
    /\ ops[s].kind = "refreshConnection"
    /\ ops[s].pc = "Promise.all"
    /\ \E connectionStatus \in ConnectionResults, addressResult \in AddressResults,
          networkResult \in NetworkResults :
         LET publicKey == OrElse(addressResult.address, Null)
         IN IF Truthy(publicKey)
              THEN /\ ops' = [ops EXCEPT ![s].pc = "getUSDCBalance",
                                         ![s].connectionStatus = connectionStatus,
                                         ![s].address = addressResult.address,
                                         ![s].networkResult = networkResult]
                   /\ last' = Pending("refreshConnection", "address", {"getUSDCBalance"}, 0)
                   /\ UNCHANGED walletState
              ELSE /\ walletState' = RefreshedState(connectionStatus, addressResult,
                                                    networkResult, Null)
                   /\ ops' = [ops EXCEPT ![s] = Idle]
                   /\ last' = [Returned("refreshConnection", "refreshedNoAddress", 1, Null)
                                  EXCEPT !.response = Response(connectionStatus,
                                                               addressResult,
                                                               networkResult)]
    /\ UNCHANGED <<mounted, init, started, aside>> /\ Track

\* one of the three calls joined by Promise.all throws
RefreshAllThrows(s) ==
    /\ ops[s].kind = "refreshConnection"
    /\ ops[s].pc = "Promise.all"
    /\ \E error \in Thrown : RefreshCatch(s, error, "readThrew")

\* await getUSDCBalance(publicKey) returns
RefreshBalanceReturns(s) ==
    /\ ops[s].kind = "refreshConnection"
    /\ ops[s].pc = "getUSDCBalance"
    /\ \E usdcBalance \in BalanceResults(ops[s].address) :
         /\ walletState' = RefreshedState(ops[s].connectionStatus,
                                          [address |-> ops[s].address],
                                          ops[s].networkResult, usdcBalance)
         /\ ops' = [ops EXCEPT ![s] = Idle]
         /\ last' = [Returned("refreshConnection", "refreshed", 1, Null)
                        EXCEPT !.response = Response(ops[s].connectionStatus,
                                                     [address |-> ops[s].address],
                                                     ops[s].networkResult)]
    /\ UNCHANGED <<mounted, init, started, aside>> /\ Track

\* await getUSDCBalance(publicKey) throws
RefreshBalanceThrows(s) ==
    /\ ops[s].kind = "refreshConnection"
    /\ ops[s].pc = "getUSDCBalance"
    /\ \E error \in Thrown : RefreshCatch(s, error, "balanceThrew")

(***************************************************************************)
(* Initial state: the first render, the mount effect has started           *)
(* initializeWallet, which awaits checkFreighterConnection()               *)
(***************************************************************************)
Mount ==
    /\ walletState = InitialWalletState
    /\ mounted = TRUE
    /\ init = InitLocals("checkFreighterConnection", NoConnection,
                         [address |-> Null], NoNetwork)
    /\ ops = [s \in Slots |-> Idle]
    /\ started = 0
    /\ last = Pending("useWallet", "mount", {"checkFreighterConnection"}, 0)

\* nothing else has been called
Apart ==
    /\ service = ServiceIdle
    /\ truncation = NoTruncation
    /\ router = NoRequest

Init == Mount /\ Apart /\ disc = NoDisconnect(FALSE)

\* the same start, following disconnect() calls
DisconnectInit == Mount /\ Apart /\ disc = NoDisconnect(TRUE)

\* what the mounted or unmounted hook does next, short of unmounting
Runs ==
    \/ InitConnectionReturns
    \/ InitConnectionThrows
    \/ InitPermissionReturns
    \/ InitPermissionThrows
    \/ InitAddressReturns
    \/ InitAddressThrows
    \/ InitBalanceReturns
    \/ InitBalanceThrows
    \/ GetPublicKeyCall
    \/ ConnectCall
    \/ Disconnect
    \/ RefreshCall
    \/ \E s \in Slots : ConnectFreighterReturns(s)
    \/ \E s \in Slots : ConnectFreighterThrows(s)
    \/ \E s \in Slots : PublicKeyNetworkReturns(s)
    \/ \E s \in Slots : PublicKeyNetworkThrows(s)
    \/ \E s \in Slots : PublicKeyBalanceReturns(s)
    \/ \E s \in Slots : PublicKeyBalanceThrows(s)
    \/ \E s \in Slots : ConnectSettles(s)
    \/ \E s \in Slots : RefreshAllReturns(s)
    \/ \E s \in Slots : RefreshAllThrows(s)
    \/ \E s \in Slots : RefreshBalanceReturns(s)
    \/ \E s \in Slots : RefreshBalanceThrows(s)

Next == Unmount \/ Runs

Spec == Init /\ [][Next]_vars

\* the hook, with the reach of its disconnect() calls followed
DisconnectSpec == DisconnectInit /\ [][Next]_vars

(***************************************************************************)
(* The verification client: a caller calls one of the two functions, the   *)
(* request to /properties/{id}/verify settles, the function returns        *)
(***************************************************************************)
\* verifyPropertyWithBlockchain or getPropertyBlockchainStatus is called and
\* awaits apiUtils.request
ServiceCall ==
    /\ service.pc = "idle"
    /\ \E fn \in {"verifyPropertyWithBlockchain", "getPropertyBlockchainStatus"} :
         service' = [service EXCEPT !.pc = "request", !.fn = fn]
    /\ UNCHANGED <<vars, truncation, router>>

\* the request settles; verifyPropertyWithBlockchain ends
VerifySettles ==
    /\ service.pc = "request"
    /\ \E outcome \in HttpOutcomes :
         LET verification == verifyPropertyWithBlockchain(outcome)
         IN service' = [service EXCEPT
                          !.pc = IF service.fn = "verifyPropertyWithBlockchain"
                                   THEN "done" ELSE "verified",
                          !.outcome = outcome,
                          !.verification = verification,
                          !.returned = verification]
    /\ UNCHANGED <<vars, truncation, router>>

\* getPropertyBlockchainStatus goes on after await verifyPropertyWithBlockchain
StatusReturns ==
    /\ service.pc = "verified"
    /\ \E now \in Times :
         service' = [service EXCEPT
                       !.pc = "done",
                       !.returned = getPropertyBlockchainStatus(service.verification, now)]
    /\ UNCHANGED <<vars, truncation, router>>

ServiceNext == ServiceCall \/ VerifySettles \/ StatusReturns

ServiceSpec == Init /\ [][ServiceNext]_<<vars, aside>>

(***************************************************************************)
(* truncateHash applied to every hash and length within the bounds         *)
(***************************************************************************)
TruncateInit ==
    /\ Mount
    /\ disc = NoDisconnect(FALSE)
    /\ service = ServiceIdle
    /\ router = NoRequest
    /\ truncation \in Truncations

TruncateReturns ==
    /\ truncation.pc = "called"
    /\ truncation' = [truncation EXCEPT
                        !.pc = "done",
                        !.result = truncateHash(truncation.hash, truncation.length)]
    /\ UNCHANGED <<vars, service, router>>

TruncateSpec == TruncateInit /\ [][TruncateReturns]_<<vars, aside>>

(***************************************************************************)
(* The router: a request arrives and goes to the first route matching it;  *)
(* the handlers of the route run in order, each middleware either passing  *)
(* the request on or ending it, the controller ending it                   *)
(***************************************************************************)
Receive ==
    /\ router.pc = "idle"
    /\ \E method \in Methods, path \in Paths :
         LET route == FirstMatch(method, path)
         IN router' = [router EXCEPT
                         !.pc = IF route = 0 THEN "done" ELSE "dispatch",
                         !.method = method,
                         !.path = path,
                         !.route = route]
    /\ UNCHANGED <<vars, service, truncation>>

\* the handler reached now
Handler == Routes[router.route].handlers[router.next]

\* a middleware calls next()
HandlerPasses ==
    /\ router.pc = "dispatch"
    /\ Handler \in Middleware
    /\ router.next < Len(Routes[router.route].handlers)
    /\ router' = [router EXCEPT !.next = @ + 1, !.reached = Append(@, Handler)]
    /\ UNCHANGED <<vars, service, truncation>>

\* a middleware rejects the request, or the controller answers it
HandlerEnds ==
    /\ router.pc = "dispatch"
    /\ router' = [router EXCEPT
                    !.pc = "done",
                    !.reached = Append(@, Handler),
                    !.endedBy = Handler]
    /\ UNCHANGED <<vars, service, truncation>>

RouterNext == Receive \/ HandlerPasses \/ HandlerEnds

RouterSpec == Init /\ [][RouterNext]_<<vars, aside>>

(***************************************************************************)
(* The same hook when the component stays mounted and every awaited call   *)
(* settles: the event loop runs the continuation of a call once the call   *)
(* has returned or thrown                                                  *)
(***************************************************************************)
InitSettles ==
    \/ InitConnectionReturns \/ InitConnectionThrows
    \/ InitPermissionReturns \/ InitPermissionThrows
    \/ InitAddressReturns \/ InitAddressThrows
    \/ InitBalanceReturns \/ InitBalanceThrows

CallSettles(s) ==
    \/ ConnectFreighterReturns(s) \/ ConnectFreighterThrows(s)
    \/ PublicKeyNetworkReturns(s) \/ PublicKeyNetworkThrows(s)
    \/ PublicKeyBalanceReturns(s) \/ PublicKeyBalanceThrows(s)
    \/ ConnectSettles(s)
    \/ RefreshAllReturns(s) \/ RefreshAllThrows(s)
    \/ RefreshBalanceReturns(s) \/ RefreshBalanceThrows(s)

\* some pending call settles and its continuation runs
Settles == InitSettles \/ \E s \in Slots : CallSettles(s)

LiveSpec == Init /\ [][Runs]_vars /\ WF_vars(Settles)

(***************************************************************************)
(* Properties                                                              *)
(***************************************************************************)
InitInFlight == init.pc # "done"

RefreshInFlight == \E s \in Slots : ops[s].kind = "refreshConnection"

\* C1: in every reachable state, isConnected implies publicKey != null and
\* isAllowed.  Fails: the connected branch of initializeWallet commits
\* isConnected = true with publicKey = null when no address came back.
C1_ConnectedHasKeyAndPermission ==
    walletState.isConnected =>
        walletState.publicKey # Null /\ walletState.isAllowed

\* C2: in every reachable state, isInstalled = false implies isConnected =
\* false and isAllowed = false.  Fails: the not-installed and catch commits of
\* initializeWallet keep the isConnected / isAllowed a getPublicKey set while
\* initialization was in flight, and refreshConnection takes isInstalled and
\* isAllowed from different responses.
C2_NotInstalledNotConnected ==
    ~walletState.isInstalled =>
        ~walletState.isConnected /\ ~walletState.isAllowed

\* C3: initialization performs no setWalletState once the component has
\* unmounted.  Fails: the commit after await getUSDCBalance is not guarded.
C3_NoInitCommitAfterUnmount ==
    ~(last.op = "initializeWallet" /\ last.commits > 0 /\ ~mounted)

\* C4: while an initialization or a refreshConnection is in flight on the
\* mounted hook, isLoading is true.  Fails: an overlapping operation that
\* finishes first clears the flag.
C4_LoadingWhileInFlight ==
    (mounted /\ (InitInFlight \/ RefreshInFlight)) => walletState.isLoading

\* C5: when checkFreighterConnection reports isInstalled = false to the
\* mounted initialization, initialization ends there, having committed
\* isInstalled = false, isLoading = false and error = the reported reason (or
\* 'Freighter not installed' when none was reported), and it calls nothing
\* further: it awaits the permission, address, network or balance call only
\* after a status that said isInstalled = true.
C5_NotInstalledEndsInitialization ==
    /\ (last.op = "initializeWallet" /\ last.step = "notInstalled") =>
          /\ ~walletState.isInstalled
          /\ ~walletState.isLoading
          /\ walletState.error = IF last.reported \in {Null, ""}
                                   THEN "Freighter not installed"
                                   ELSE last.reported
          /\ init.pc = "done"
          /\ last.called = {}
          /\ last.commits = 1
    /\ init.pc \in {"checkFreighterPermission", "getFreighterAddress", "getUSDCBalance"}
          => init.connectionStatus.isInstalled

C5_Witness ==
    /\ last.op = "initializeWallet"
    /\ last.step = "notInstalled"
    /\ last.reported = "Freighter not detected"
    /\ walletState.error = "Freighter not detected"
    /\ init.pc = "done"

\* the step in which connect's await getPublicKey() settles in slot s
ConnectExit(s) ==
    /\ ops[s].kind = "connect"
    /\ ops[s].pc = "settled"
    /\ ops'[s].kind = "none"

\* the step in which the getPublicKey called by connect in slot s throws
ConnectInnerThrow(s) ==
    /\ ops[s].kind = "connect"
    /\ ops[s].pc # "settled"
    /\ ops'[s].pc = "settled"
    /\ last'.outcome = "threw"

\* C6: connect() sets isLoading when it starts; the commit it ends with clears
\* isLoading on every exit path; when getPublicKey failed it leaves a non-null
\* error in the state and throws to its caller the very error getPublicKey
\* threw.
C6_ConnectClearsLoadingAndRethrows ==
    /\ []((last.op = "connect" /\ last.step = "call") => walletState.isLoading)
    /\ []((last.op = "connect" /\ last.outcome \in {"returned", "threw"})
             => /\ ~walletState.isLoading
                /\ last.commits >= 1)
    /\ []((last.op = "connect" /\ last.outcome = "threw")
             => /\ walletState.error # Null
                /\ walletState.error = IF last.thrown.isError
                                         THEN last.thrown.message
                                         ELSE "Failed to connect")
    /\ [][\A s \in Slots :
            /\ ConnectInnerThrow(s) => ops'[s].thrown = last'.thrown
            /\ ConnectExit(s) =>
                 /\ last'.op = "connect"
                 /\ IF ops[s].thrown # NoExc
                      THEN last'.outcome = "threw" /\ last'.thrown = ops[s].thrown
                      ELSE last'.outcome = "returned"]_vars

C6_Witness ==
    /\ last.op = "connect"
    /\ last.outcome = "threw"
    /\ last.thrown = NewError("No address returned from Freighter")
    /\ walletState.error = "No address returned from Freighter"
    /\ ~walletState.isLoading

C8_DisconnectIsLocalReset ==
    [][last'.op = "disconnect"
       => /\ ~walletState'.isConnected
          /\ walletState'.publicKey = Null
          /\ walletState'.network = Null
          /\ walletState'.networkPassphrase = Null
          /\ walletState'.usdcBalance = Null
          /\ walletState'.isInstalled = walletState.isInstalled
          /\ walletState'.isAllowed = walletState.isAllowed
          /\ walletState'.isLoading = walletState.isLoading
          /\ walletState'.error = walletState.error
          /\ last'.called = {}
          /\ ops' = ops
          /\ init' = init]_vars

C8_Witness ==
    /\ last.op = "disconnect"
    /\ walletState.isInstalled
    /\ walletState.isAllowed
    /\ ~walletState.isConnected
    /\ walletState.publicKey = Null
    /\ walletState.error = "Failed to refresh connection"

\* C9: in every reachable state, publicKey != null together with isAllowed
\* implies isConnected.  Fails: refreshConnection stores the address it got
\* also when the connection status says isConnected = false, and the
\* not-connected commit of initializeWallet keeps the publicKey a getPublicKey
\* stored.
C9_KeyAndPermissionImplyConnected ==
    (walletState.publicKey # Null /\ walletState.isAllowed)
        => walletState.isConnected

\* the step in which the catch of initializeWallet commits
InitCatchCommits ==
    /\ init.pc # "done"
    /\ last'.op = "initializeWallet"
    /\ last'.thrown # NoExc
    /\ last'.commits = 1

PublicKeyFailures ==
    {"connectError", "noAddress", "connectThrew", "networkThrew", "balanceThrew"}

\* C11: only getPublicKey and connect let a failure reach their caller.
\* Every failure inside getPublicKey (an error field or no address from
\* connectFreighter, a throwing wallet or balance call) commits error != null
\* and usdcBalance = null and ends getPublicKey with the exception; getPublicKey
\* goes on to the network call only with an address; initializeWallet and
\* refreshConnection end by returning, also when they caught an exception.
C11_OnlyPublicKeyAndConnectThrow ==
    /\ (last.op = "getPublicKey" /\ last.step \in PublicKeyFailures) =>
          /\ last.outcome = "threw"
          /\ last.thrown # NoExc
          /\ last.commits = 1
          /\ walletState.error # Null
          /\ walletState.usdcBalance = Null
    /\ (last.op = "getPublicKey" /\ last.outcome = "threw") =>
          last.step \in PublicKeyFailures
    /\ \A s \in Slots :
         (InPublicKey(s) /\ ops[s].pc \in {"getFreighterNetwork", "getUSDCBalance"})
            => ops[s].address \notin {Null, ""}
    /\ last.op \in {"initializeWallet", "refreshConnection", "disconnect"} =>
          last.outcome # "threw"
    /\ last.outcome = "threw" => last.op \in {"getPublicKey", "connect"}

C11_Witness ==
    /\ last.op = "getPublicKey"
    /\ last.step = "balanceThrew"
    /\ last.outcome = "threw"
    /\ walletState.isConnected
    /\ walletState.publicKey = "GA"
    /\ walletState.error = "Network error"
    /\ walletState.usdcBalance = Null

\* the step in which the Promise.all of the refreshConnection in slot s returns
RefreshReadsReturn(s) ==
    /\ ops[s].kind = "refreshConnection"
    /\ ops[s].pc = "Promise.all"
    /\ ops'[s] # ops[s]
    /\ last'.thrown = NoExc

\* C12: a refreshConnection whose reads all succeed commits, whatever the
\* state was, isConnected = (status.isConnected and an address came),
\* isAllowed = (an address came), publicKey = the address or null,
\* isInstalled = status.isInstalled, isLoading = false, error = null and the
\* network fields read; usdcBalance is what getUSDCBalance returned for that
\* address when an address came and null otherwise; getUSDCBalance is called
\* exactly when an address came.
C12_RefreshReplacesState ==
    /\ [](LET r == last.response
              present == r.address \notin {Null, ""}
          IN (last.op = "refreshConnection"
                /\ last.step \in {"refreshed", "refreshedNoAddress"})
             => /\ walletState.isConnected = (r.isConnected /\ present)
                /\ walletState.isAllowed = present
                /\ walletState.publicKey = (IF present THEN r.address ELSE Null)
                /\ walletState.isInstalled = r.isInstalled
                /\ ~walletState.isLoading
                /\ walletState.error = Null
                /\ walletState.network = (IF r.network = "" THEN Null ELSE r.network)
                /\ walletState.networkPassphrase =
                      (IF r.networkPassphrase = "" THEN Null ELSE r.networkPassphrase)
                /\ last.commits = 1
                /\ (last.step = "refreshed") = present
                /\ IF present
                     THEN walletState.usdcBalance \in {Null, BalanceOf(r.address)}
                     ELSE walletState.usdcBalance = Null)
    /\ [][\A s \in Slots :
            RefreshReadsReturn(s) =>
               IF ops'[s].pc = "getUSDCBalance"
                 THEN /\ last'.called = {"getUSDCBalance"}
                      /\ ops'[s].address \notin {Null, ""}
                      /\ walletState' = walletState
                 ELSE /\ last'.called = {}
                      /\ last'.step = "refreshedNoAddress"]_vars

C12_Witness ==
    /\ last.op = "refreshConnection"
    /\ last.step = "refreshed"
    /\ last.response.address = "GB"
    /\ ~last.response.isConnected
    /\ walletState.publicKey = "GB"
    /\ walletState.usdcBalance = "25.50"
    /\ walletState.isAllowed
    /\ ~walletState.isConnected

\* C13: refreshConnection, getPublicKey and connect perform no setWalletState
\* once the component has unmounted.  Fails: none of them reads the mount
\* flag, so a call pending at unmount commits when it settles.
C13_NoCallCommitAfterUnmount ==
    ~(/\ last.op \in {"refreshConnection", "getPublicKey", "connect"}
      /\ last.commits > 0
      /\ ~mounted)

\* C18: in every reachable state a non-null usdcBalance comes with a non-null
\* publicKey and is the balance getUSDCBalance returns for that key.
C18_BalanceBelongsToKey ==
    walletState.usdcBalance # Null =>
        /\ walletState.publicKey # Null
        /\ walletState.usdcBalance = BalanceOf(walletState.publicKey)

C18_Witness ==
    /\ walletState.publicKey = "GB"
    /\ walletState.usdcBalance = "25.50"
    /\ last.op = "getPublicKey"
    /\ last.step = "connected"
    /\ init.pc = "done"

\* no initialization, connect or refreshConnection is in flight
Quiet ==
    /\ ~InitInFlight
    /\ \A s \in Slots : ops[s].kind \notin {"connect", "refreshConnection"}

\* C20: when the component stays mounted and every call settles, isLoading
\* is false in every state where no initialization, connect or
\* refreshConnection is in flight, and the hook comes to rest in such a state.
C20_LoadingClearsWhenQuiet ==
    /\ []((mounted /\ Quiet) => ~walletState.isLoading)
    /\ <>[](mounted /\ Quiet /\ ~walletState.isLoading)

C20_Witness ==
    /\ mounted
    /\ Quiet
    /\ ~walletState.isLoading
    /\ last.op = "refreshConnection"
    /\ last.step = "balanceThrew"
    /\ walletState.isConnected

\* C14: verifyPropertyWithBlockchain never throws; it returns the envelope's
\* data unchanged when the request resolved with a truthy success and a data
\* field, and {isValid: false, blockchainData: undefined} in every other case
\* (success false or missing, data missing, null result, request throwing).
C14_VerifyNeverThrows ==
    service.pc \in {"verified", "done"} =>
        LET outcome == service.outcome
            result == outcome.result
            usable == /\ outcome.kind = "resolved"
                      /\ result # Undefined
                      /\ result[1].success = Some(TRUE)
                      /\ result[1].data # Undefined
        IN /\ ~service.verification.threw
           /\ service.verification.thrown = NoExc
           /\ IF usable
                THEN service.verification.value = result[1].data[1]
                ELSE service.verification.value =
                        [isValid |-> FALSE, blockchainData |-> Undefined]

C14_Witness ==
    /\ service.pc = "done"
    /\ service.fn = "verifyPropertyWithBlockchain"
    /\ service.outcome.kind = "resolved"
    /\ service.outcome.result # Undefined
    /\ service.outcome.result[1].success = Some(FALSE)
    /\ service.outcome.result[1].data # Undefined
    /\ service.outcome.result[1].data[1].isValid
    /\ ~service.returned.value.isValid

\* C15: getPropertyBlockchainStatus returns lastVerified exactly when the
\* verification is valid; for an invalid one it returns isVerified = false,
\* error 'Data integrity check failed' and no lastVerified.  Fails: the
\* timestamp is stamped on every result of verifyPropertyWithBlockchain.
C15_LastVerifiedOnlyWhenValid ==
    (service.pc = "done" /\ service.fn = "getPropertyBlockchainStatus") =>
        LET status == service.returned.value
        IN /\ (status.lastVerified # Undefined) = status.isVerified
           /\ status.isVerified = service.verification.value.isValid
           /\ ~status.isVerified => status.error = Some("Data integrity check failed")

\* C19: once disconnect() has been applied, isConnected stays false and
\* publicKey stays null until an operation started after that disconnect
\* commits; a getPublicKey, connect, refreshConnection or initialization in
\* flight when disconnect ran does not reconnect the wallet.  Fails: a call in
\* flight commits its result whatever happened meanwhile.
C19_DisconnectOutlastsCallsInFlight ==
    disc.active =>
        /\ ~walletState.isConnected
        /\ walletState.publicKey = Null

\* C16: for every string h and every n >= 0, truncateHash(h, n) is h when
\* h.length <= 2n, and otherwise the first n characters of h, '...' and the
\* last n characters of h, of length 2n+3; for n = 0 and a non-empty h it is
\* exactly '...'.  Fails for n = 0: h.slice(-0) is the whole of h.
C16_TruncateHash ==
    truncation.pc = "done" =>
        LET h == truncation.hash
            n == truncation.length
            r == truncation.result
        IN IF Len(h) <= 2 * n
             THEN r = h
             ELSE /\ r = SubSeq(h, 1, n) \o Ellipsis \o SubSeq(h, Len(h) - n + 1, Len(h))
                  /\ Len(r) = 2 * n + 3
                  /\ n = 0 => r = Ellipsis

\* the routes the claim names, by method and path
ProtectedRoutes ==
    { <<"POST", <<>> >>, <<"PUT", <<":id">> >>, <<"DELETE", <<":id">> >>,
      <<"GET", <<"owner", ":ownerId">> >>, <<"PATCH", <<":id", "availability">> >>,
      <<"PATCH", <<":id", "status">> >> }

PublicRoutes ==
    { <<"GET", <<"amenities">> >>, <<"GET", <<"featured">> >>, <<"GET", <<>> >>,
      <<"GET", <<":id">> >>, <<"GET", <<":id", "verify">> >> }

RouteKey(route) == <<route.method, route.path>>

\* C17: on every protected route authenticateToken is the first handler, so a
\* request it rejects reaches no validation, no upload parsing and no
\* controller; the public routes have no authentication handler; GET /amenities
\* and GET /featured are matched before GET /:id.
C17_AuthenticationFirst ==
    /\ {RouteKey(Routes[i]) : i \in 1..Len(Routes)} = ProtectedRoutes \cup PublicRoutes
    /\ \A i \in 1..Len(Routes) :
         LET handlers == Routes[i].handlers
         IN IF RouteKey(Routes[i]) \in ProtectedRoutes
              THEN /\ handlers[1] = "authenticateToken"
                   /\ \A k \in 2..Len(handlers) : handlers[k] # "authenticateToken"
              ELSE \A k \in 1..Len(handlers) : handlers[k] # "authenticateToken"
    /\ router.route # 0 =>
         /\ RouteKey(Routes[router.route]) \in ProtectedRoutes =>
              /\ router.reached # <<>> => router.reached[1] = "authenticateToken"
              /\ router.endedBy = "authenticateToken" =>
                   router.reached = <<"authenticateToken">>
              /\ router.endedBy \notin {Null, "authenticateToken"} =>
                   Len(router.reached) > 1
         /\ RouteKey(Routes[router.route]) \in PublicRoutes =>
              \A k \in 1..Len(router.reached) : router.reached[k] # "authenticateToken"
    /\ (router.pc # "idle" /\ router.method = "GET"
          /\ router.path \in {<<"amenities">>, <<"featured">>}) =>
         /\ router.route # 0
         /\ Routes[router.route].path = router.path
         /\ \A k \in 1..Len(router.reached) :
              router.reached[k] \notin {"validatePropertyId", "getPropertyByIdController"}

C17_Witness ==
    /\ router.pc = "done"
    /\ router.method = "DELETE"
    /\ router.path = <<"p1">>
    /\ router.endedBy = "authenticateToken"
    /\ router.reached = <<"authenticateToken">>

====
